---- MODULE Spec2Model ----
(***************************************************************************)
(* Revenue-pattern analysis (streamlit pages).                             *)
(*                                                                         *)
(* Spec       : the upload page pipeline, preprocess_data followed by      *)
(*              prepare_plots (src/pages/page_1.py).                       *)
(* SpecSel    : the estimate page, from the correlation column of the      *)
(*              longest horizon to the correlation factor                  *)
(*              (src/pages/page_5.py).                                     *)
(* SpecFactor : assign_factor of both pages applied to arbitrary           *)
(*              arguments.                                                 *)
(* SpecUplift : the estimate page from the spend bracket to the uplift     *)
(*              figures, and get_avg_spending_factor applied to arbitrary  *)
(*              amounts (src/pages/page_5.py, src/pages/page_2.py).        *)
(* SpecRank   : the re-ranking transition matrix of the User Value         *)
(*              Re-Ranking page.                                           *)
(* SpecSession: the session state across Run Analysis and the visits of    *)
(*              the analysis pages.                                        *)
(* Correlations, factors and ROAS values are counted in hundredths.        *)
(*                                                                         *)
(* Time is counted in whole hours.  A pandas float cell is the record      *)
(* [nan, num]: NaN is a value of its own and every comparison with it is   *)
(* false, as in IEEE arithmetic.                                           *)
(***************************************************************************)
EXTENDS Integers, Sequences, FiniteSets, TLC

\* ------------------------------------------------------------------ bounds
MaxEvents == 2

\* ------------------------------------------------------- float cells / NaN
NaN == [nan |-> TRUE, num |-> 0]

Num(n) == [nan |-> FALSE, num |-> n]

\* a <= b on float cells: false as soon as one side is NaN
Le(a, b) == ~a.nan /\ ~b.nan /\ a.num <= b.num

\* ------------------------------------------------------------ input domain
Users == <<"u1", "u2">>

UserIds == {Users[i] : i \in 1..Len(Users)}

\* event and anchor instants, in hours
TimeVals == {0, 1, 25, 4321}

AnchorVals == {0, 1}

\* a missing value cell is NaN
ValueCells == {Num(3), Num(5), NaN}

\* the is_activation column: a boolean flag, an integer 0/1 flag, or an
\* explicit anchor instant
Flag(b) == [flag |-> b]

IntFlag(n) == [int |-> n]

Anchor(t) == [time |-> t]

FlagRows == [user_id : UserIds, timestamp : TimeVals,
             is_activation : {Flag(TRUE), Flag(FALSE)}, value : ValueCells]

IntFlagRows == [user_id : UserIds, timestamp : TimeVals,
                is_activation : {IntFlag(0), IntFlag(1)}, value : ValueCells]

AnchorRows == [user_id : UserIds, timestamp : TimeVals,
               is_activation : {Anchor(t) : t \in AnchorVals}, value : ValueCells]

SeqsUpTo(S, n) == UNION {[1..k -> S] : k \in 1..n}

\* ------------------------------------------------------------------- state
VARIABLES
    pc,                     \* position in the run-analysis flow
    raw,                    \* the uploaded table handed to preprocess_data
    df,                     \* the table returned by preprocess_data
    days_list,              \* the horizon list returned by preprocess_data
    warnings,               \* st.warning messages shown so far
    df_aggregate_payments,  \* the table returned by prepare_plots
    correlation,            \* column D{max_value} of the correlation matrix, by horizon
    max_value,              \* max(days_list); the first argument of assign_factor
    relevant_values,        \* the dict built by the estimate page, in insertion order
    churney_roas_period,    \* the selected horizon, or None
    churney_roas,           \* the selected correlation, or None
    correlation_factor,     \* the factor assign_factor returned, or None
    error,                  \* the exception that ended the page script, or "none"
    test_value,             \* the second argument of assign_factor
    factor_page_5,          \* the outcome of page_5's assign_factor, or None
    factor_page_2,          \* the outcome of page_2's assign_factor, or None
    passed,                 \* the table object handed to preprocess_data, as the caller sees it
    column,                 \* the name of the activation column of the upload
    cache,                  \* the arguments st.cache_data holds a result of preprocess_data for
    avg_monthly_spend,      \* the spend bracket label held in the session
    regular_roas,           \* the baseline ROAS held in the session
    ad_spend_range,         \* range_mapping(avg_ad_spend)
    avg_spending_factor,    \* the spend factors of the bracket's minimum and maximum
    figures,                \* the uplift figures of the minimum and of the maximum
    spend_arg,              \* the argument of a call of the spend factor, or None
    spend_result,           \* the outcome of that call on page_5 and on page_2
    rank_table,             \* the aggregate rows handed to the re-ranking
    transition_matrix,      \* the row-normalized band-by-band matrix, or None
    session_state,          \* st.session_state
    page,                   \* the page whose script ran last
    outcome,                \* how that script ended
    runs,                   \* the number of Run Analysis clicks so far
    form                    \* the parameter widgets of the click that stored the table of the
                            \* session, and whether that run made all its writes

pipelineVars == <<raw, df, warnings, df_aggregate_payments, passed, column, cache>>

upliftVars == <<avg_monthly_spend, regular_roas, ad_spend_range, avg_spending_factor,
                figures, spend_arg, spend_result>>

rankVars == <<rank_table, transition_matrix>>

sessionVars == <<session_state, page, outcome, runs, form>>

extVars == <<upliftVars, rankVars, sessionVars>>

selVars == <<correlation, relevant_values, churney_roas_period, churney_roas,
             correlation_factor>>

factorVars == <<test_value, factor_page_5, factor_page_2>>

vars == <<pc, days_list, max_value, error, pipelineVars, selVars, factorVars, extVars>>

\* Python's None, and a value that is not None
None == <<>>

Some(v) == <<v>>

PipelineIdle ==
    /\ raw = <<>>
    /\ df = <<>>
    /\ warnings = {}
    /\ df_aggregate_payments = <<>>
    /\ passed = None
    /\ column = "none"
    /\ cache = {}

SelIdle ==
    /\ correlation = <<>>
    /\ relevant_values = <<>>
    /\ churney_roas_period = None
    /\ churney_roas = None
    /\ correlation_factor = None

FactorIdle ==
    /\ test_value = None
    /\ factor_page_5 = None
    /\ factor_page_2 = None

UpliftIdle ==
    /\ avg_monthly_spend = None
    /\ regular_roas = None
    /\ ad_spend_range = None
    /\ avg_spending_factor = None
    /\ figures = None
    /\ spend_arg = None
    /\ spend_result = None

RankIdle ==
    /\ rank_table = <<>>
    /\ transition_matrix = None

SessionIdle ==
    /\ session_state = <<>>
    /\ page = "none"
    /\ outcome = "none"
    /\ runs = 0
    /\ form = None

ExtIdle == UpliftIdle /\ RankIdle /\ SessionIdle

\* ---------------------------------------------------------- preprocess_data
\* is_bool_dtype(df["is_activation"])
is_bool_dtype(t) == \A i \in 1..Len(t) : "flag" \in DOMAIN t[i].is_activation

Min(S) == CHOOSE m \in S : \A x \in S : m <= x

Max(S) == CHOOSE m \in S : \A x \in S : x <= m

\* df["is_activation"].isin([0, 1]).all() on a column that is not boolean
isin_0_1(t) == \A i \in 1..Len(t) : "int" \in DOMAIN t[i].is_activation

\* the condition that selects the activation-flag branch
FlagBranch(t) == is_bool_dtype(t) \/ isin_0_1(t)

\* df.loc[df.is_activation]: a boolean column is a mask; an integer column
\* is a list of row labels, so row i of the result is the row labelled
\* is_activation[i] (labels start at 0)
loc_is_activation(t) ==
    IF is_bool_dtype(t)
    THEN SelectSeq(t, LAMBDA r : r.is_activation.flag)
    ELSE [i \in 1..Len(t) |-> t[t[i].is_activation.int + 1]]

\* a label of the list is not in the index: .loc raises KeyError
LocKeyError(t) ==
    /\ ~is_bool_dtype(t)
    /\ isin_0_1(t)
    /\ \E i \in 1..Len(t) : t[i].is_activation.int + 1 > Len(t)

\* .groupby("user_id")["timestamp"]: the instants of the selected rows of u
ActivationTimes(t, u) ==
    LET sel == loc_is_activation(t)
    IN {sel[i].timestamp : i \in {j \in 1..Len(sel) : sel[j].user_id = u}}

\* the merged first_touchpoint cell of a row: NaT (NaN) when the left join
\* finds no flagged row of the user
first_touchpoint(t, u) ==
    IF ActivationTimes(t, u) = {} THEN NaN ELSE Num(Min(ActivationTimes(t, u)))

\* (timestamp - anchor).total_seconds() / 3600
HoursSince(ts, anchor) == IF anchor.nan THEN NaN ELSE Num(ts - anchor.num)

hours_since_first_touchpoint(t, i) ==
    IF FlagBranch(t)
    THEN HoursSince(t[i].timestamp, first_touchpoint(t, t[i].user_id))
    ELSE HoursSince(t[i].timestamp, Num(t[i].is_activation.time))

\* df["value"].fillna(0)
fillna(v) == IF v.nan THEN Num(0) ELSE v

DateRangeHours == 24 * 90

\* max timestamp - min timestamp of the table, in hours
DateSpan(t) ==
    Max({t[i].timestamp : i \in 1..Len(t)}) - Min({t[i].timestamp : i \in 1..Len(t)})

DaysList == <<1, 3, 7, 14, 30, 60, 90, 180>>

\* the dtype read_csv gives the is_activation column
ActivationDtype(t) ==
    IF is_bool_dtype(t) THEN "bool" ELSE IF isin_0_1(t) THEN "int64" ELSE "object"

\* the table object as load_data returns it: its columns, the dtypes of the
\* timestamp column and of the activation column col (text is object), its
\* value cells
TableOf(t, col) ==
    [columns |-> {"user_id", "timestamp", col, "value"},
     timestamp |-> "object",
     activation |-> ActivationDtype(t),
     value |-> [i \in 1..Len(t) |-> t[i].value]]

\* the same object after the body of preprocess_data ran on it.  The
\* timestamp column is assigned before anything else.  The name df is
\* rebound by rename when the activation column is called
\* first_touchpoint, and by merge in the flag branch; otherwise, in the
\* anchor branch, it still names the caller's object when is_activation is
\* converted, the offset column is added and value is filled.
PassedAfter(t, col) ==
    IF col # "is_activation" \/ FlagBranch(t)
    THEN [TableOf(t, col) EXCEPT !.timestamp = "datetime64"]
    ELSE [columns |-> TableOf(t, col).columns \cup {"hours_since_first_touchpoint"},
          timestamp |-> "datetime64",
          activation |-> "datetime64",
          value |-> [i \in 1..Len(t) |-> fillna(t[i].value)]]

preprocess_data(t) ==
    [i \in 1..Len(t) |->
        [user_id |-> t[i].user_id,
         timestamp |-> t[i].timestamp,
         is_activation |-> t[i].is_activation,
         value |-> fillna(t[i].value),
         hours_since_first_touchpoint |-> hours_since_first_touchpoint(t, i)]]

\* ------------------------------------------------------------ prepare_plots
\* df["user_id"].unique(): distinct ids in order of first appearance
RECURSIVE unique(_)
unique(s) ==
    IF s = <<>> THEN <<>>
    ELSE LET r == unique(SubSeq(s, 1, Len(s) - 1))
             x == s[Len(s)]
         IN IF \E i \in 1..Len(r) : r[i] = x THEN r ELSE Append(r, x)

UserIdColumn(t) == [i \in 1..Len(t) |-> t[i].user_id]

\* df[df["hours_since_first_touchpoint"] <= 24 * day]
conditional_subset(t, day) ==
    SelectSeq(t, LAMBDA r : Le(r.hours_since_first_touchpoint, Num(24 * day)))

RECURSIVE SumValues(_, _)
SumValues(t, u) ==
    IF t = <<>> THEN 0
    ELSE (IF t[1].user_id = u THEN t[1].value.num ELSE 0) + SumValues(Tail(t), u)

\* .groupby(by="user_id")["value"].sum().reset_index(): one row per user
\* that has a row in the subset, in key order
RECURSIVE GroupBySum(_, _)
GroupBySum(sub, k) ==
    IF k > Len(Users) THEN <<>>
    ELSE (IF \E i \in 1..Len(sub) : sub[i].user_id = Users[k]
          THEN <<[user_id |-> Users[k], sum |-> Num(SumValues(sub, Users[k]))]>>
          ELSE <<>>) \o GroupBySum(sub, k + 1)

tmp_df(t, day) == GroupBySum(conditional_subset(t, day), 1)

\* MergeRow of an inner join: a left row without a match yields nothing
MergeRow_inner(row, right) ==
    LET hits == SelectSeq(right, LAMBDA r : r.user_id = row.user_id)
    IN [j \in 1..Len(hits) |->
           [user_id |-> row.user_id, D |-> Append(row.D, hits[j].sum)]]

\* the rows one left row yields in merge(how="left", on="user_id")
MergeRow(row, right) ==
    LET hits == SelectSeq(right, LAMBDA r : r.user_id = row.user_id)
    IN IF hits = <<>>
       THEN <<[user_id |-> row.user_id, D |-> Append(row.D, NaN)]>>
       ELSE [j \in 1..Len(hits) |->
                [user_id |-> row.user_id, D |-> Append(row.D, hits[j].sum)]]

RECURSIVE merge_left(_, _)
merge_left(left, right) ==
    IF left = <<>> THEN <<>>
    ELSE MergeRow(left[1], right) \o merge_left(Tail(left), right)

\* the successive values of df_aggregate_payments: the table built from
\* unique(), then the table after each of the first k passes of the loop
\* over days_list; column D[j] of a row is the column named D{days[j]}
RECURSIVE AggregateSteps(_, _, _)
AggregateSteps(t, days, k) ==
    IF k = 0
    THEN LET ids == unique(UserIdColumn(t))
         IN <<[i \in 1..Len(ids) |-> [user_id |-> ids[i], D |-> <<>>]]>>
    ELSE LET steps == AggregateSteps(t, days, k - 1)
         IN Append(steps, merge_left(steps[Len(steps)], tmp_df(t, days[k])))

prepare_plots(t, days) == AggregateSteps(t, days, Len(days))[Len(days) + 1]

\* ------------------------------------------------------------------ actions
\* user ids are opaque: the user of the first row is the one named first
Init ==
    /\ pc = "uploaded"
    /\ raw \in SeqsUpTo(FlagRows, MaxEvents) \cup SeqsUpTo(IntFlagRows, MaxEvents)
               \cup SeqsUpTo(AnchorRows, MaxEvents)
    /\ raw[1].user_id = Users[1]
    /\ df = <<>>
    /\ days_list = <<>>
    /\ warnings = {}
    /\ df_aggregate_payments = <<>>
    /\ max_value = 0
    /\ error = "none"
    /\ column = "is_activation"
    /\ cache = {}
    /\ passed = TableOf(raw, column)
    /\ SelIdle
    /\ FactorIdle
    /\ ExtIdle

\* df, days_list = preprocess_data(df); an exception ends the script.
\* st.cache_data keys the call by the content of the table: on a hit the
\* body is skipped, the stored result is returned and the stored warning
\* is replayed; on a miss the body runs on the caller's table and the
\* result is stored unless the body raised.
PreprocessData ==
    /\ pc = "uploaded"
    /\ IF <<column, raw>> \in cache
       THEN /\ df' = preprocess_data(raw)
            /\ warnings' = IF DateSpan(raw) < DateRangeHours
                           THEN warnings \cup {"date range too short"}
                           ELSE warnings
            /\ days_list' = DaysList
            /\ pc' = "preprocessed"
            /\ error' = "none"
            /\ UNCHANGED <<passed, cache>>
       ELSE /\ passed' = PassedAfter(raw, column)
            /\ IF LocKeyError(raw)
               THEN /\ error' = "KeyError"
                    /\ pc' = "failed"
                    /\ UNCHANGED <<df, warnings, days_list, cache>>
               ELSE /\ df' = preprocess_data(raw)
                    /\ warnings' = IF DateSpan(raw) < DateRangeHours
                                   THEN warnings \cup {"date range too short"}
                                   ELSE warnings
                    /\ days_list' = DaysList
                    /\ pc' = "preprocessed"
                    /\ error' = "none"
                    /\ cache' = cache \cup {<<column, raw>>}
    /\ UNCHANGED <<raw, column, df_aggregate_payments, max_value, selVars, factorVars,
                   extVars>>

\* df_aggregate_payments, days_list = prepare_plots(df, days_list)
PreparePlots ==
    /\ pc = "preprocessed"
    /\ df_aggregate_payments' = prepare_plots(df, days_list)
    /\ pc' = "aggregated"
    /\ UNCHANGED <<raw, df, days_list, warnings, passed, column, cache, max_value,
                   error, selVars, factorVars, extVars>>

Next == PreprocessData \/ PreparePlots

Spec == Init /\ [][Next]_vars

\* ---------------------------------------------------- calls through the cache
MaxRows == 1

\* the names the activation column of an upload goes by
ColumnNames == {"is_activation", "first_touchpoint"}

InitCall ==
    /\ pc = "uploaded"
    /\ raw \in SeqsUpTo(FlagRows, MaxRows) \cup SeqsUpTo(IntFlagRows, MaxRows)
               \cup SeqsUpTo(AnchorRows, MaxRows)
    /\ raw[1].user_id = Users[1]
    /\ column \in ColumnNames
    /\ cache = {}
    /\ passed = TableOf(raw, column)
    /\ df = <<>>
    /\ days_list = <<>>
    /\ warnings = {}
    /\ df_aggregate_payments = <<>>
    /\ max_value = 0
    /\ error = "none"
    /\ SelIdle
    /\ FactorIdle
    /\ ExtIdle

\* the script runs again on the same upload, in a new namespace in which
\* df and days_list of the earlier run are gone: load_data, cached as
\* well, hands out a new copy of the table it read
LoadData ==
    /\ pc \in {"preprocessed", "failed"}
    /\ passed' = TableOf(raw, column)
    /\ pc' = "uploaded"
    /\ df' = <<>>
    /\ days_list' = <<>>
    /\ warnings' = {}
    /\ error' = "none"
    /\ UNCHANGED <<raw, column, cache, df_aggregate_payments, max_value,
                   selVars, factorVars, extVars>>

NextCall == PreprocessData \/ LoadData

SpecCall == InitCall /\ [][NextCall]_vars

\* ===================================================================
\* Properties of the upload pipeline (Spec)
\* ===================================================================
Aggregated == pc = "aggregated"

Horizons == 1..Len(days_list)

AggRows == 1..Len(df_aggregate_payments)

\* the ids that occur in the table handed to prepare_plots
DfUsers == {df[i].user_id : i \in 1..Len(df)}

\* the rows of user u that qualify for the k-th horizon
Qualifying(u, k) ==
    {i \in 1..Len(df) :
        /\ df[i].user_id = u
        /\ ~df[i].hours_since_first_touchpoint.nan
        /\ df[i].hours_since_first_touchpoint.num <= 24 * days_list[k]}

\* C1: once the table is aggregated, every row is monotonic over the
\* horizons: for h1 < h2 the cell D{h1} is <= the cell D{h2} (all values of
\* the run are non-negative).
C1_Monotonic ==
    Aggregated =>
        \A r \in AggRows : \A a, b \in Horizons :
            a < b => Le(df_aggregate_payments[r].D[a], df_aggregate_payments[r].D[b])

\* C2: every user of the events is present in the aggregate table, and a
\* user with no qualifying row for a horizon holds the number 0 in that
\* horizon's column.
C2_ZeroFill ==
    Aggregated =>
        \A u \in DfUsers :
            /\ \E r \in AggRows : df_aggregate_payments[r].user_id = u
            /\ \A r \in AggRows : \A k \in Horizons :
                  (df_aggregate_payments[r].user_id = u /\ Qualifying(u, k) = {})
                      => df_aggregate_payments[r].D[k] = Num(0)

\* the number of rows of table t that carry user id u
RowsOf(t, u) == Cardinality({r \in 1..Len(t) : t[r].user_id = u})

OneRowPerUser(t) ==
    /\ \A u \in DfUsers : RowsOf(t, u) = 1
    /\ Len(t) = Cardinality(DfUsers)

\* C3: the aggregate table holds exactly one row per distinct user id of the
\* events, and so does the table after each of the per-horizon left joins.
C3_RowCardinality ==
    Aggregated =>
        /\ OneRowPerUser(df_aggregate_payments)
        /\ LET steps == AggregateSteps(df, days_list, Len(days_list))
           IN \A k \in 1..Len(steps) : OneRowPerUser(steps[k])

\* a user with two events inside one horizon window, aggregated to one row
C3_Witness ==
    /\ Aggregated
    /\ Len(df) = 2
    /\ df[1].user_id = df[2].user_id
    /\ Cardinality(Qualifying(df[1].user_id, 1)) = 2
    /\ Len(df_aggregate_payments) = 1

\* row i of the raw table is activation-flagged (True, or 1)
Flagged(i) ==
    IF is_bool_dtype(raw) THEN raw[i].is_activation.flag ELSE raw[i].is_activation.int = 1

\* the users of the raw table that have an activation-flagged row
Anchored == {u \in DfUsers : \E i \in 1..Len(raw) : raw[i].user_id = u /\ Flagged(i)}

\* a is the anchor of u: the instant of a flagged row of u, none earlier
IsAnchorOf(a, u) ==
    /\ \E i \in 1..Len(raw) : raw[i].user_id = u /\ Flagged(i) /\ raw[i].timestamp = a
    /\ \A i \in 1..Len(raw) : (raw[i].user_id = u /\ Flagged(i)) => a <= raw[i].timestamp

\* the sum of the value column of df over the row indices in I
RECURSIVE ValueSum(_)
ValueSum(I) ==
    IF I = {} THEN 0
    ELSE LET i == CHOOSE x \in I : TRUE
         IN df[i].value.num + ValueSum(I \ {i})

SpecExample ==
    <<[user_id |-> "u1", timestamp |-> 0, is_activation |-> Flag(TRUE), value |-> Num(5)],
      [user_id |-> "u1", timestamp |-> 1, is_activation |-> Flag(FALSE), value |-> Num(3)]>>

\* C4: under the activation-flag convention (a boolean or a 0/1 column) the
\* offset of every row of an anchored user is timestamp minus the instant of
\* the user's earliest flagged row, and
\* D{h} of that user is the sum of value over the user's rows with offset
\* <= 24*h (boundary and negative offsets included); the two-event example
\* yields offsets 0 and 1 and D1 = 8.
C4_AnchorAndSum ==
    (Aggregated /\ FlagBranch(raw)) =>
        /\ \A u \in Anchored : \A a \in TimeVals :
              IsAnchorOf(a, u) =>
                 /\ \A i \in 1..Len(df) :
                       df[i].user_id = u =>
                          df[i].hours_since_first_touchpoint = Num(df[i].timestamp - a)
                 /\ \A r \in AggRows : \A k \in Horizons :
                       df_aggregate_payments[r].user_id = u =>
                          df_aggregate_payments[r].D[k] =
                             Num(ValueSum({i \in 1..Len(df) :
                                    /\ df[i].user_id = u
                                    /\ df[i].timestamp - a <= 24 * days_list[k]}))
        /\ raw = SpecExample =>
              /\ df[1].hours_since_first_touchpoint = Num(0)
              /\ df[2].hours_since_first_touchpoint = Num(1)
              /\ df_aggregate_payments[1].D[1] = Num(8)

\* C5: under the activation-flag convention a user without any flagged row
\* is absent from the aggregate table and the number of such users is
\* reported.
C5_AnchorExclusion ==
    (Aggregated /\ FlagBranch(raw)) =>
        \A u \in DfUsers \ Anchored :
            /\ \A r \in AggRows : df_aggregate_payments[r].user_id # u
            /\ \E w \in warnings : w = "excluded users"

\* two rows of one user carry different explicit anchors
InconsistentAnchor ==
    /\ ~FlagBranch(raw)
    /\ \E i, j \in 1..Len(raw) :
          /\ raw[i].user_id = raw[j].user_id
          /\ raw[i].is_activation.time # raw[j].is_activation.time

\* C6: with an inconsistent explicit anchor the run fails in anchor
\* resolution: no offsets are computed and no aggregate table is produced.
C6_InconsistentAnchorFails ==
    InconsistentAnchor => (df = <<>> /\ df_aggregate_payments = <<>>)

\* ===================================================================
\* The estimate page (src/pages/page_5.py, src/pages/page_2.py)
\* ===================================================================
\* a < b and a > b on float cells: false as soon as one side is NaN
Lt(a, b) == ~a.nan /\ ~b.nan /\ a.num < b.num

Gt(a, b) == ~a.nan /\ ~b.nan /\ a.num > b.num

Threshold == 85

\* the horizon lists the selection is exercised on
HorizonLists == {<<1, 3, 7, 60>>, <<1, 3, 7, 14, 30>>, <<7, 30, 90>>, DaysList}

\* correlations with the longest horizon; NaN when a column is constant
CorrCells == {Num(50), Num(85), Num(86), Num(90), NaN}

\* the column D{max} of a Spearman matrix: 1 on the diagonal, or NaN
\* everywhere when the column of the longest horizon is constant
CorrelationColumns(days) ==
    LET mx == Max({days[i] : i \in 1..Len(days)})
        others == {days[i] : i \in 1..Len(days)} \ {mx}
    IN {[d \in others \cup {mx} |-> IF d = mx THEN Num(100) ELSE f[d]] :
            f \in [others -> CorrCells]}
       \cup {[d \in others \cup {mx} |-> NaN]}

Elems(s) == {s[i] : i \in 1..Len(s)}

\* days_list[::-1]
Reverse(s) == [i \in 1..Len(s) |-> s[Len(s) + 1 - i]]

\* BuildDict that walks days_list front to back
BuildDict_forward(days, corr) ==
    [i \in 1..Len(days) |-> [key |-> days[i], value |-> corr[days[i]]]]

\* for day in days_list[::-1]: relevant_values[day] = correlation[f"D{day}"][f"D{max_value}"]
BuildDict(days, corr) ==
    LET rev == Reverse(days)
    IN [i \in 1..Len(rev) |-> [key |-> rev[i], value |-> corr[rev[i]]]]

\* find_value_above_threshold that returns the first key other than the
\* maximum whatever its value
RECURSIVE find_value_above_threshold_any(_, _, _)
find_value_above_threshold_any(dictionary, threshold, mv) ==
    IF dictionary = <<>> THEN [key |-> None, value |-> None]
    ELSE IF dictionary[1].key # mv
         THEN [key |-> Some(dictionary[1].key), value |-> Some(dictionary[1].value)]
         ELSE find_value_above_threshold_any(Tail(dictionary), threshold, mv)

\* find_value_above_threshold that keeps the last match instead of the first
RECURSIVE find_value_above_threshold_last(_, _, _)
find_value_above_threshold_last(dictionary, threshold, mv) ==
    IF dictionary = <<>> THEN [key |-> None, value |-> None]
    ELSE LET n == Len(dictionary)
         IN IF Gt(dictionary[n].value, Num(threshold)) /\ dictionary[n].key # mv
            THEN [key |-> Some(dictionary[n].key), value |-> Some(dictionary[n].value)]
            ELSE find_value_above_threshold_last(SubSeq(dictionary, 1, n - 1), threshold, mv)

\* find_value_above_threshold with >= in place of >
RECURSIVE find_value_above_threshold_ge(_, _, _)
find_value_above_threshold_ge(dictionary, threshold, mv) ==
    IF dictionary = <<>> THEN [key |-> None, value |-> None]
    ELSE IF ~Lt(dictionary[1].value, Num(threshold)) /\ ~dictionary[1].value.nan
            /\ dictionary[1].key # mv
         THEN [key |-> Some(dictionary[1].key), value |-> Some(dictionary[1].value)]
         ELSE find_value_above_threshold_ge(Tail(dictionary), threshold, mv)

\* the first item of the dict above the threshold whose key is not the
\* global max_value (mv)
RECURSIVE find_value_above_threshold(_, _, _)
find_value_above_threshold(dictionary, threshold, mv) ==
    IF dictionary = <<>> THEN [key |-> None, value |-> None]
    ELSE IF Gt(dictionary[1].value, Num(threshold)) /\ dictionary[1].key # mv
         THEN [key |-> Some(dictionary[1].key), value |-> Some(dictionary[1].value)]
         ELSE find_value_above_threshold(Tail(dictionary), threshold, mv)

Returned(f) == [exc |-> "none", factor |-> Some(f)]

Raised(e) == [exc |-> e, factor |-> None]

\* assign_factor with the 0.6 / 0.7 rows of the 90-day table swapped
assign_factor_swapped(mv, tv) ==
    IF mv = 60 THEN
        IF tv = None THEN Raised("TypeError")
        ELSE IF Lt(tv[1], Num(40)) THEN Returned(10)
        ELSE IF Lt(tv[1], Num(60)) THEN Returned(8)
        ELSE IF Lt(tv[1], Num(70)) THEN Returned(3)
        ELSE IF Lt(tv[1], Num(80)) THEN Returned(1)
        ELSE Returned(0)
    ELSE IF mv = 90 THEN
        IF tv = None THEN Raised("TypeError")
        ELSE IF Lt(tv[1], Num(40)) THEN Returned(12)
        ELSE IF Lt(tv[1], Num(60)) THEN Returned(4)
        ELSE IF Lt(tv[1], Num(70)) THEN Returned(10)
        ELSE IF Lt(tv[1], Num(80)) THEN Returned(1)
        ELSE Returned(0)
    ELSE IF mv = 180 THEN
        IF tv = None THEN Raised("TypeError")
        ELSE IF Lt(tv[1], Num(40)) THEN Returned(14)
        ELSE IF Lt(tv[1], Num(60)) THEN Returned(12)
        ELSE IF Lt(tv[1], Num(70)) THEN Returned(4)
        ELSE IF Lt(tv[1], Num(80)) THEN Returned(1)
        ELSE Returned(0)
    ELSE Raised("UnboundLocalError")

\* page_5: a comparison of None with a float raises TypeError; a horizon
\* outside the table leaves the local unbound at the return
assign_factor(mv, tv) ==
    IF mv = 60 THEN
        IF tv = None THEN Raised("TypeError")
        ELSE IF Lt(tv[1], Num(40)) THEN Returned(10)
        ELSE IF Lt(tv[1], Num(60)) THEN Returned(8)
        ELSE IF Lt(tv[1], Num(70)) THEN Returned(3)
        ELSE IF Lt(tv[1], Num(80)) THEN Returned(1)
        ELSE Returned(0)
    ELSE IF mv = 90 THEN
        IF tv = None THEN Raised("TypeError")
        ELSE IF Lt(tv[1], Num(40)) THEN Returned(12)
        ELSE IF Lt(tv[1], Num(60)) THEN Returned(10)
        ELSE IF Lt(tv[1], Num(70)) THEN Returned(4)
        ELSE IF Lt(tv[1], Num(80)) THEN Returned(1)
        ELSE Returned(0)
    ELSE IF mv = 180 THEN
        IF tv = None THEN Raised("TypeError")
        ELSE IF Lt(tv[1], Num(40)) THEN Returned(14)
        ELSE IF Lt(tv[1], Num(60)) THEN Returned(12)
        ELSE IF Lt(tv[1], Num(70)) THEN Returned(4)
        ELSE IF Lt(tv[1], Num(80)) THEN Returned(1)
        ELSE Returned(0)
    ELSE Raised("UnboundLocalError")

\* page_2: the same rows under the horizons 62, 93 and 186
assign_factor_page_2(mv, tv) ==
    IF mv = 62 THEN
        IF tv = None THEN Raised("TypeError")
        ELSE IF Lt(tv[1], Num(40)) THEN Returned(10)
        ELSE IF Lt(tv[1], Num(60)) THEN Returned(8)
        ELSE IF Lt(tv[1], Num(70)) THEN Returned(3)
        ELSE IF Lt(tv[1], Num(80)) THEN Returned(1)
        ELSE Returned(0)
    ELSE IF mv = 93 THEN
        IF tv = None THEN Raised("TypeError")
        ELSE IF Lt(tv[1], Num(40)) THEN Returned(12)
        ELSE IF Lt(tv[1], Num(60)) THEN Returned(10)
        ELSE IF Lt(tv[1], Num(70)) THEN Returned(4)
        ELSE IF Lt(tv[1], Num(80)) THEN Returned(1)
        ELSE Returned(0)
    ELSE IF mv = 186 THEN
        IF tv = None THEN Raised("TypeError")
        ELSE IF Lt(tv[1], Num(40)) THEN Returned(14)
        ELSE IF Lt(tv[1], Num(60)) THEN Returned(12)
        ELSE IF Lt(tv[1], Num(70)) THEN Returned(4)
        ELSE IF Lt(tv[1], Num(80)) THEN Returned(1)
        ELSE Returned(0)
    ELSE Raised("UnboundLocalError")

\* ------------------------------------------------------- SpecSel: actions
InitSel ==
    /\ pc = "correlated"
    /\ days_list \in HorizonLists
    /\ correlation \in CorrelationColumns(days_list)
    /\ max_value = 0
    /\ relevant_values = <<>>
    /\ churney_roas_period = None
    /\ churney_roas = None
    /\ correlation_factor = None
    /\ error = "none"
    /\ PipelineIdle
    /\ FactorIdle
    /\ ExtIdle

\* max_value = max(days_list) and the loop that fills relevant_values
BuildRelevantValues ==
    /\ pc = "correlated"
    /\ max_value' = Max(Elems(days_list))
    /\ relevant_values' = BuildDict(days_list, correlation)
    /\ pc' = "collected"
    /\ UNCHANGED <<days_list, correlation, churney_roas_period, churney_roas,
                   correlation_factor, error, pipelineVars, factorVars, extVars>>

\* churney_roas_period, churney_roas = find_value_above_threshold(relevant_values, 0.85)
FindValueAboveThreshold ==
    /\ pc = "collected"
    /\ LET res == find_value_above_threshold(relevant_values, Threshold, max_value)
       IN /\ churney_roas_period' = res.key
          /\ churney_roas' = res.value
    /\ pc' = "selected"
    /\ UNCHANGED <<days_list, max_value, correlation, relevant_values,
                   correlation_factor, error, pipelineVars, factorVars, extVars>>

\* correlation_factor = assign_factor(max_value, churney_roas)
AssignFactor ==
    /\ pc = "selected"
    /\ LET res == assign_factor(max_value, churney_roas)
       IN /\ correlation_factor' = res.factor
          /\ error' = res.exc
          /\ pc' = IF res.exc = "none" THEN "factored" ELSE "failed"
    /\ UNCHANGED <<days_list, max_value, correlation, relevant_values,
                   churney_roas_period, churney_roas, pipelineVars, factorVars, extVars>>

NextSel == BuildRelevantValues \/ FindValueAboveThreshold \/ AssignFactor

SpecSel == InitSel /\ [][NextSel]_vars

\* ---------------------------------------------------- SpecFactor: actions
FactorHorizons == {30, 60, 62, 90, 93, 180, 186}

FactorCorrelations ==
    {-100, 0, 39, 40, 41, 59, 60, 61, 65, 69, 70, 71, 79, 80, 81, 85, 86, 100}

TestValues == {Some(Num(c)) : c \in FactorCorrelations} \cup {Some(NaN), None}

InitFactor ==
    /\ pc = "arguments"
    /\ max_value \in FactorHorizons
    /\ test_value \in TestValues
    /\ factor_page_5 = None
    /\ factor_page_2 = None
    /\ days_list = <<>>
    /\ error = "none"
    /\ PipelineIdle
    /\ SelIdle
    /\ ExtIdle

\* page_5.assign_factor(max_value, test_value)
CallAssignFactorPage5 ==
    /\ factor_page_5 = None
    /\ factor_page_5' = Some(assign_factor(max_value, test_value))
    /\ UNCHANGED <<pc, days_list, max_value, error, test_value, factor_page_2,
                   pipelineVars, selVars, extVars>>

\* page_2.assign_factor(max_value, test_value)
CallAssignFactorPage2 ==
    /\ factor_page_2 = None
    /\ factor_page_2' = Some(assign_factor_page_2(max_value, test_value))
    /\ UNCHANGED <<pc, days_list, max_value, error, test_value, factor_page_5,
                   pipelineVars, selVars, extVars>>

NextFactor == CallAssignFactorPage5 \/ CallAssignFactorPage2

SpecFactor == InitFactor /\ [][NextFactor]_vars

\* ===================================================================
\* Properties of the selection (SpecSel)
\* ===================================================================
Selected == pc \in {"selected", "factored", "failed"}

\* the horizons other than the longest whose correlation with the longest
\* horizon is strictly above the threshold
QualifyingHorizons ==
    {d \in Elems(days_list) \ {Max(Elems(days_list))} : Gt(correlation[d], Num(Threshold))}

\* C7 as stated: the selected horizon is the shortest qualifying one.
C7_ShortestQualifying ==
    (Selected /\ QualifyingHorizons # {}) =>
        churney_roas_period = Some(Min(QualifyingHorizons))

\* C7 (amended): the selected horizon is the longest horizon other than the
\* maximum whose correlation with the maximum horizon exceeds 0.85, and the
\* selected correlation is that horizon's.
C7_LongestQualifying ==
    (Selected /\ QualifyingHorizons # {}) =>
        /\ churney_roas_period = Some(Max(QualifyingHorizons))
        /\ churney_roas = Some(correlation[Max(QualifyingHorizons)])

\* two horizons qualify and the longer one was selected
C7_Witness ==
    /\ Selected
    /\ Cardinality(QualifyingHorizons) >= 2
    /\ churney_roas_period = Some(Max(QualifyingHorizons))
    /\ churney_roas_period # Some(Min(QualifyingHorizons))

ScanExample ==
    /\ days_list = <<1, 3, 7, 60>>
    /\ correlation[60] = Num(100)
    /\ correlation[7] = Num(90)
    /\ correlation[3] = Num(86)
    /\ correlation[1] = Num(50)

\* C8: the dict is walked from the longest horizon down to the shortest; the
\* item returned is the first one after the maximum horizon's whose value is
\* above 0.85, and the example [1,3,7,60] with 0.9 / 0.86 / 0.5 returns D7
\* with 0.9.
C8_ScanOrder ==
    Selected =>
        /\ \A i \in 1..Len(days_list) :
              relevant_values[i].key = days_list[Len(days_list) + 1 - i]
        /\ \A i \in 1..Len(relevant_values) :
              churney_roas_period = Some(relevant_values[i].key) =>
                 /\ i >= 2
                 /\ churney_roas = Some(relevant_values[i].value)
                 /\ Gt(relevant_values[i].value, Num(Threshold))
                 /\ \A j \in 2..(i - 1) : ~Gt(relevant_values[j].value, Num(Threshold))
        /\ (\E i \in 2..Len(relevant_values) : Gt(relevant_values[i].value, Num(Threshold)))
              => churney_roas_period # None
        /\ ScanExample => (churney_roas_period = Some(7) /\ churney_roas = Some(Num(90)))

\* the example of the claim after the selection
C8_Witness == Selected /\ ScanExample /\ churney_roas_period = Some(7)

\* C9: the selected horizon is never the maximum horizon, a selected
\* correlation is strictly above 0.85, and the result is (None, None)
\* exactly when no other horizon is strictly above 0.85.
C9_ResultDomain ==
    Selected =>
        /\ churney_roas_period # Some(max_value)
        /\ churney_roas # None =>
              (~churney_roas[1].nan /\ churney_roas[1].num > Threshold)
        /\ (churney_roas_period = None) <=> (churney_roas = None)
        /\ (churney_roas_period = None) <=> (QualifyingHorizons = {})

\* a horizon sits exactly on the threshold, the maximum horizon's own
\* correlation is 1, and nothing was selected
C9_Witness ==
    /\ Selected
    /\ correlation[max_value] = Num(100)
    /\ \E d \in Elems(days_list) : correlation[d] = Num(Threshold)
    /\ churney_roas_period = None
    /\ churney_roas = None

\* ===================================================================
\* Properties of the factor table (SpecFactor)
\* ===================================================================
FactorTable ==
    [h \in {60, 90, 180} |->
        IF h = 60 THEN <<10, 8, 3, 1, 0>>
        ELSE IF h = 90 THEN <<12, 10, 4, 1, 0>>
        ELSE <<14, 12, 4, 1, 0>>]

\* the bucket of a correlation: below 0.4, [0.4, 0.6), [0.6, 0.7),
\* [0.7, 0.8), 0.8 and above
BucketOf(c) ==
    CHOOSE b \in 1..5 :
        \/ b = 1 /\ c < 40
        \/ b = 2 /\ 40 <= c /\ c < 60
        \/ b = 3 /\ 60 <= c /\ c < 70
        \/ b = 4 /\ 70 <= c /\ c < 80
        \/ b = 5 /\ 80 <= c

FactorValues == {0, 1, 3, 4, 8, 10, 12, 14}

IsNumber(tv) == tv # None /\ ~tv[1].nan

\* the horizon of the 60/90/180 table that a horizon of page_2 stands for
Equivalent(h) == IF h = 62 THEN 60 ELSE IF h = 93 THEN 90 ELSE 180

\* C10: for max_horizon in {60, 90, 180} and a correlation c, assign_factor
\* returns the table entry of the bucket of c, a value of the factor set;
\* (90, 0.65) gives 0.04.  page_2 holds the same rows under 62, 93 and 186.
C10_TableExact ==
    /\ (factor_page_5 # None /\ max_value \in {60, 90, 180} /\ IsNumber(test_value)) =>
          /\ factor_page_5[1].exc = "none"
          /\ factor_page_5[1].factor =
                Some(FactorTable[max_value][BucketOf(test_value[1].num)])
          /\ factor_page_5[1].factor[1] \in FactorValues
          /\ (max_value = 90 /\ test_value[1].num = 65) => factor_page_5[1].factor = Some(4)
    /\ (factor_page_5 # None /\ max_value \in {60, 90, 180} /\ test_value # None) =>
          /\ factor_page_5[1].exc = "none"
          /\ factor_page_5[1].factor[1] \in FactorValues
    /\ (factor_page_2 # None /\ max_value \in {62, 93, 186} /\ IsNumber(test_value)) =>
          factor_page_2[1] =
             Returned(FactorTable[Equivalent(max_value)][BucketOf(test_value[1].num)])

\* assign_factor(90, 0.65) returned 0.04
C10_Witness ==
    /\ max_value = 90
    /\ test_value = Some(Num(65))
    /\ factor_page_5 = Some(Returned(4))

\* ===================================================================
\* Further properties of the upload pipeline (Spec)
\* ===================================================================
Preprocessed == pc \in {"preprocessed", "aggregated"}

\* C16: the date-range warning is shown exactly when the span of the event
\* timestamps is shorter than the longest configured horizon, and the run
\* continues with the normalized events and the horizon list.
C16_DateRangeWarning ==
    Preprocessed =>
        /\ ("date range too short" \in warnings)
              <=> (DateSpan(raw) < 24 * Max(Elems(days_list)))
        /\ Len(df) = Len(raw)
        /\ days_list = DaysList

\* C17: preprocess_data leaves the table passed to it as it was: the same
\* columns, the same dtypes, the same cells.
C17_InputUnchanged ==
    pc # "uploaded" => passed = TableOf(raw, column)

\* a call answered from the cache leaves the caller's table as loaded
CachedCallUnchanged ==
    (pc = "preprocessed" /\ passed = TableOf(raw, column)) => <<column, raw>> \in cache

\* ===================================================================
\* Further properties of the factor table and of the selection
\* ===================================================================
Supported == {60, 90, 180}

SupportedPage2 == {62, 93, 186}

\* C11: when the maximum horizon is not one of the three recognized values,
\* assign_factor fails with UnsupportedHorizonSet, the error that names the
\* failed requirement, and returns no factor.
C11_UnsupportedHorizonSet ==
    /\ (factor_page_5 # None /\ max_value \notin Supported) =>
          factor_page_5[1] = Raised("UnsupportedHorizonSet")
    /\ (factor_page_2 # None /\ max_value \notin SupportedPage2) =>
          factor_page_2[1] = Raised("UnsupportedHorizonSet")

\* C18: in every run of the pipeline that reaches the uplift formula the
\* correlation handed to assign_factor is the selected one, strictly above
\* 0.85, and the correlation factor is 0.
C18_ZeroCorrelationFactor ==
    pc = "factored" =>
        /\ max_value \in Supported
        /\ churney_roas # None
        /\ Gt(churney_roas[1], Num(Threshold))
        /\ churney_roas_period # None
        /\ churney_roas = Some(correlation[churney_roas_period[1]])
        /\ correlation_factor = Some(0)

\* a supported horizon set whose correlations include one of a bucket with
\* a non-zero table entry, and the factor that came out is 0
C18_Witness ==
    /\ pc = "factored"
    /\ max_value = 180
    /\ \E d \in Elems(days_list) : correlation[d] = Num(50)
    /\ churney_roas = Some(Num(86))
    /\ correlation_factor = Some(0)

\* C19: when the selection returned (None, None) under a supported maximum
\* horizon, the estimator completes without raising.
C19_NoSelectionCompletes ==
    (pc \in {"factored", "failed"} /\ max_value \in Supported /\ churney_roas = None) =>
        error = "none"

\* ===================================================================
\* Estimate page: spend bracket, spend factor and uplift arithmetic
\* (src/pages/page_1.py form, src/pages/page_5.py, src/pages/page_2.py)
\* ===================================================================
\* the options of the spend selectbox of the upload page
ad_spend_dropdown ==
    <<"Less than $100k", "$100k - $300k", "$300k - $600k", "$600k - $1M",
      "$1M - $1.5M", "$1.5M - $2M", "$3M - $10M", "More than $10M">>

\* the dict of range_mapping
spend_ranges ==
    [l \in {"Less than $100k", "$100k - $300k", "$300k - $600k", "$600k - $1M",
            "$1M - $1.5M", "$1.5M - $3M", "$3M - $10M", "More than $10M"} |->
        IF l = "Less than $100k" THEN <<1, 100000>>
        ELSE IF l = "$100k - $300k" THEN <<100000, 300000>>
        ELSE IF l = "$300k - $600k" THEN <<300000, 600000>>
        ELSE IF l = "$600k - $1M" THEN <<600000, 1000000>>
        ELSE IF l = "$1M - $1.5M" THEN <<1000000, 1500000>>
        ELSE IF l = "$1.5M - $3M" THEN <<1500000, 3000000>>
        ELSE IF l = "$3M - $10M" THEN <<3000000, 10000000>>
        ELSE <<10000000, 100000000>>]

\* spend_ranges.get(avg_ad_spend, (None, None))
range_mapping(avg_ad_spend) ==
    IF avg_ad_spend \in DOMAIN spend_ranges
    THEN <<Some(spend_ranges[avg_ad_spend][1]), Some(spend_ranges[avg_ad_spend][2])>>
    ELSE <<None, None>>

\* get_avg_spending_factor with >= at the upper threshold
get_avg_spending_factor_ge(avg_ad_spend_monthly) ==
    IF avg_ad_spend_monthly = None THEN Raised("TypeError")
    ELSE IF avg_ad_spend_monthly[1] >= 200000 THEN Returned(3)
    ELSE IF avg_ad_spend_monthly[1] > 100000 THEN Returned(5)
    ELSE Returned(0)

\* page_5: the factor of a monthly amount; None > 200000 raises TypeError
get_avg_spending_factor(avg_ad_spend_monthly) ==
    IF avg_ad_spend_monthly = None THEN Raised("TypeError")
    ELSE IF avg_ad_spend_monthly[1] > 200000 THEN Returned(3)
    ELSE IF avg_ad_spend_monthly[1] > 100000 THEN Returned(5)
    ELSE Returned(0)

\* page_2: the factor of a yearly amount; avg_ad_spend / 12 is compared
\* with the thresholds, written here without the division
avg_spending_factor_page_2(avg_ad_spend) ==
    IF avg_ad_spend > 200000 * 12 THEN 3
    ELSE IF avg_ad_spend > 100000 * 12 THEN 5
    ELSE 0

\* -------------------------------------------------------------------
\* Python floats (IEEE 754 binary64, round to nearest, ties to even).
\* The figures of page_5.py:141-163 and page_2.py:75-106 are computed in
\* them.  A natural number of any size is a sequence of limbs in base
\* 2^15, least significant first and without leading zero limbs; a float
\* is [sign, m, e] of value sign * m * 2^e with m of exactly 53 bits, or
\* m = <<>> for 0.  Values out of the normal range do not occur in the
\* figures.  An operator that uses an operand more than once takes its
\* value first, as the one element of a set, so that the operand is
\* computed once.
\* -------------------------------------------------------------------
\* the element of a set of one element
Value(S) == CHOOSE v \in S : TRUE

LimbBase == 32768
LimbBits == 15

\* the number of bits of a double's significand
Precision == 53

RECURSIVE BigOf(_)
BigOf(n) == IF n = 0 THEN <<>> ELSE <<n % LimbBase>> \o BigOf(n \div LimbBase)

RECURSIVE TrimTo(_, _)
TrimTo(a, n) ==
    IF n = 0 THEN <<>>
    ELSE IF a[n] = 0 THEN TrimTo(a, n - 1)
    ELSE SubSeq(a, 1, n)

\* a without its leading zero limbs
Trim(a) == Value({TrimTo(x, Len(x)) : x \in {a}})

Limb(a, i) == IF i <= Len(a) THEN a[i] ELSE 0

RECURSIVE AddFrom(_, _, _, _)
AddFrom(a, b, i, carry) ==
    IF i > Len(a) /\ i > Len(b)
    THEN IF carry = 0 THEN <<>> ELSE <<carry>>
    ELSE LET s == Limb(a, i) + Limb(b, i) + carry
         IN <<s % LimbBase>> \o AddFrom(a, b, i + 1, s \div LimbBase)

BigAdd(a, b) == Value({AddFrom(x, y, 1, 0) : x \in {a}, y \in {b}})

RECURSIVE SubFrom(_, _, _, _)
SubFrom(a, b, i, borrow) ==
    IF i > Len(a) THEN <<>>
    ELSE LET d == a[i] - Limb(b, i) - borrow
         IN IF d < 0 THEN <<d + LimbBase>> \o SubFrom(a, b, i + 1, 1)
            ELSE <<d>> \o SubFrom(a, b, i + 1, 0)

\* a - b for a >= b
BigSub(a, b) == Value({Trim(SubFrom(x, y, 1, 0)) : x \in {a}, y \in {b}})

RECURSIVE CmpFrom(_, _, _)
CmpFrom(a, b, i) ==
    IF i = 0 THEN 0
    ELSE IF a[i] < b[i] THEN -1
    ELSE IF a[i] > b[i] THEN 1
    ELSE CmpFrom(a, b, i - 1)

\* -1, 0 or 1 as a is less than, equal to or greater than b
CmpOf(a, b) ==
    IF Len(a) < Len(b) THEN -1
    ELSE IF Len(a) > Len(b) THEN 1
    ELSE CmpFrom(a, b, Len(a))

BigCmp(a, b) == Value({CmpOf(x, y) : x \in {a}, y \in {b}})

RECURSIVE MulSmallFrom(_, _, _, _)
MulSmallFrom(a, k, i, carry) ==
    IF i > Len(a)
    THEN IF carry = 0 THEN <<>> ELSE <<carry>>
    ELSE LET p == a[i] * k + carry
         IN <<p % LimbBase>> \o MulSmallFrom(a, k, i + 1, p \div LimbBase)

\* a * k for 0 <= k < 2^15
BigMulSmall(a, k) ==
    Value({IF j = 0 THEN <<>> ELSE MulSmallFrom(x, j, 1, 0) : x \in {a}, j \in {k}})

RECURSIVE MulFrom(_, _, _)
MulFrom(a, b, j) ==
    IF j > Len(b) THEN <<>>
    ELSE Value({BigAdd(BigMulSmall(a, b[j]), IF rest = <<>> THEN <<>> ELSE <<0>> \o rest) :
                   rest \in {MulFrom(a, b, j + 1)}})

BigMul(a, b) ==
    Value({IF x = <<>> THEN <<>> ELSE MulFrom(x, y, 1) : x \in {a}, y \in {b}})

RECURSIVE SmallBitLen(_)
SmallBitLen(n) == IF n = 0 THEN 0 ELSE 1 + SmallBitLen(n \div 2)

BitLen(a) ==
    Value({IF x = <<>> THEN 0 ELSE LimbBits * (Len(x) - 1) + SmallBitLen(x[Len(x)]) :
              x \in {a}})

\* a * 2^s
ShiftLeft(a, s) ==
    Value({IF x = <<>> THEN <<>>
           ELSE [i \in 1..(k \div LimbBits) |-> 0] \o BigMulSmall(x, 2 ^ (k % LimbBits)) :
              x \in {a}, k \in {s}})

\* a \div 2^s
ShiftRight(a, s) ==
    Value({Trim([i \in 1..Len(t) |-> (t[i] \div p) + (Limb(t, i + 1) % p) * (LimbBase \div p)]) :
              p \in {2 ^ (s % LimbBits)},
              t \in {IF s \div LimbBits >= Len(a) THEN <<>>
                     ELSE SubSeq(a, s \div LimbBits + 1, Len(a))}})

IsOdd(a) == Value({x # <<>> /\ x[1] % 2 = 1 : x \in {a}})

FloatZero == [sign |-> 1, m |-> <<>>, e |-> 0]

\* a significand q of at most 54 bits as a float
Normal(sign, q, e) ==
    IF BitLen(q) > Precision THEN [sign |-> sign, m |-> ShiftRight(q, 1), e |-> e + 1]
    ELSE [sign |-> sign, m |-> q, e |-> e]

\* n \div 2^s, rounded up when the rest is more than half of 2^s, or just
\* half and n \div 2^s is odd
RoundOff(n, s) ==
    Value({IF c > 0 \/ (c = 0 /\ IsOdd(q)) THEN BigAdd(q, <<1>>) ELSE q :
              q \in {ShiftRight(n, s)},
              c \in {BigCmp(BigSub(n, ShiftLeft(ShiftRight(n, s), s)),
                            ShiftLeft(<<1>>, s - 1))}})

\* the float nearest to sign * n * 2^e, ties to even
RoundToFloat(sign, n, e) ==
    Value({IF v = <<>> THEN FloatZero
           ELSE IF s <= 0 THEN [sign |-> sign, m |-> ShiftLeft(v, -s), e |-> e + s]
           ELSE Value({Normal(sign, q, e + s) : q \in {RoundOff(v, s)}}) :
              v \in {n}, s \in {BitLen(n) - Precision}})

\* float(n) of an int
FromInt(n) ==
    Value({RoundToFloat(IF k < 0 THEN -1 ELSE 1, BigOf(IF k < 0 THEN -k ELSE k), 0) : k \in {n}})

IsZero(x) == x.m = <<>>

FNeg(x) == Value({[a EXCEPT !.sign = -a.sign] : a \in {x}})

\* x * y
FMul(x, y) ==
    Value({IF IsZero(a) \/ IsZero(b) THEN FloatZero
           ELSE RoundToFloat(a.sign * b.sign, BigMul(a.m, b.m), a.e + b.e) :
              a \in {x}, b \in {y}})

\* the sum of sign1 * a * 2^e and sign2 * b * 2^e
AddAligned(sign1, a, sign2, b, e) ==
    IF sign1 = sign2 THEN RoundToFloat(sign1, BigAdd(a, b), e)
    ELSE Value({IF c = 0 THEN FloatZero
                ELSE IF c > 0 THEN RoundToFloat(sign1, BigSub(a, b), e)
                ELSE RoundToFloat(sign2, BigSub(b, a), e) : c \in {BigCmp(a, b)}})

\* x + y
FAdd(x, y) ==
    Value({IF IsZero(a) THEN b
           ELSE IF IsZero(b) THEN a
           ELSE Value({AddAligned(a.sign, ShiftLeft(a.m, a.e - e), b.sign,
                                  ShiftLeft(b.m, b.e - e), e) :
                          e \in {IF a.e < b.e THEN a.e ELSE b.e}}) :
              a \in {x}, b \in {y}})

\* x - y
FSub(x, y) == FAdd(x, FNeg(y))

\* the int of a number below 2^30
SmallOf(a) == Value({Limb(x, 1) + Limb(x, 2) * LimbBase : x \in {a}})

\* q and the remainder r when they are the quotient and the remainder of a
\* division by d, and else those after q is raised
RECURSIVE Correct(_, _, _)
Correct(q, r, d) ==
    Value({IF BigCmp(x, d) >= 0 THEN Correct(q + 1, BigSub(x, d), d)
           ELSE [q |-> q, r |-> x] : x \in {r}})

\* The next limb of the quotient of a division by d of 53 bits that has
\* reached the remainder r < d, and the remainder after it.  The limb is
\* first estimated from the leading 16 bits of d and the bits of r above
\* the same place, which gives at most 2 too little.
QuotientLimb(r, d) ==
    Value({Correct(est, BigSub(ShiftLeft(r, LimbBits), BigMulSmall(d, est)), d) :
              est \in {(SmallOf(ShiftRight(r, Precision - 16)) * LimbBase)
                         \div (SmallOf(ShiftRight(d, Precision - 16)) + 1)}})

\* the next n limbs of the quotient, and the remainder after them
RECURSIVE DivLimbs(_, _, _)
DivLimbs(r, d, n) ==
    IF n = 0 THEN [q |-> <<>>, r |-> r]
    ELSE Value({Value({[q |-> rest.q \o <<g.q>>, r |-> rest.r] :
                          rest \in {DivLimbs(g.r, d, n - 1)}}) :
                   g \in {QuotientLimb(r, d)}})

\* the limbs a division computes past the point
DivLimbCount == 4

\* the quotient of the significands a over b to 60 binary places, and after
\* them a digit 1 when a remainder is left
DivDigits(a, b) ==
    Value({Value({BigAdd(BigMulSmall(Trim(g.q \o <<IF ge THEN 1 ELSE 0>>), 2),
                         IF g.r = <<>> THEN <<>> ELSE <<1>>) :
                     g \in {DivLimbs(IF ge THEN BigSub(a, b) ELSE a, b, DivLimbCount)}}) :
              ge \in {BigCmp(a, b) >= 0}})

\* x / y for y other than 0, rounded once
FDiv(x, y) ==
    Value({IF IsZero(a) THEN FloatZero
           ELSE RoundToFloat(a.sign * b.sign, DivDigits(a.m, b.m),
                             a.e - b.e - DivLimbCount * LimbBits - 1) :
              a \in {x}, b \in {y}})

\* the decimals with two places that the source writes (0.1, 0.03, 0.05,
\* 0.01, 0.04, 0.08, 0.10, 0.12, 0.14) and the baseline ROAS values below,
\* in hundredths
Decimals == {0, 1, 3, 4, 5, 8, 10, 12, 14, 50, 95}

\* the float of each: n / 100 rounded once
DecimalFloats == [n \in Decimals |-> FDiv(FromInt(n), FromInt(100))]

\* the float of a decimal literal with two places
FromHundredths(n) ==
    IF n \in Decimals THEN DecimalFloats[n] ELSE FDiv(FromInt(n), FromInt(100))

\* -1, 0 or 1 as x is less than, equal to or greater than y
CmpFloats(x, y) ==
    IF IsZero(x) /\ IsZero(y) THEN 0
    ELSE IF IsZero(x) THEN -y.sign
    ELSE IF IsZero(y) THEN x.sign
    ELSE IF x.sign # y.sign THEN x.sign
    ELSE IF x.e < y.e THEN x.sign * BigCmp(x.m, ShiftLeft(y.m, y.e - x.e))
    ELSE x.sign * BigCmp(ShiftLeft(x.m, x.e - y.e), y.m)

FCmp(x, y) == Value({CmpFloats(a, b) : a \in {x}, b \in {y}})

\* the baseline factor, in hundredths
churney_baseline == 10

\* (uplift / return) * 100
percent_uplift(uplift, return) == FMul(FDiv(uplift, return), FromInt(100))

\* the projected ROAS without the baseline factor
churney_roas_of_nobaseline(rr, sf, cf) ==
    Value({FAdd(r, FMul(r, FAdd(sf, cf))) : r \in {rr}})

\* regular_roas + regular_roas * (churney_baseline + avg_spending_factor +
\* correlation_factor) on floats
churney_roas_of(rr, sf, cf) ==
    Value({FAdd(r, FMul(r, FAdd(FAdd(FromHundredths(churney_baseline), sf), cf))) :
              r \in {rr}})

\* ad_spend * regular_roas is 0.0 only when a factor is 0: the product of
\* two floats of the sizes at hand does not underflow
zero_return(ad_spend, rr) == ad_spend = 0 \/ rr = 0

\* the figures of page_5.py lines 144-163 for one end of the bracket, from
\* the amount of the end and the floats of the baseline and projected ROAS
figures_of(ad_spend, rr, roas) ==
    Value({Value({[churney_roas |-> roas,
                   return_monthly |-> r.return_monthly,
                   return_yearly |-> r.return_yearly,
                   churney_return_monthly |-> r.churney_return_monthly,
                   churney_return_yearly |-> r.churney_return_yearly,
                   uplift_monthly |-> uplift_monthly,
                   uplift_yearly |-> uplift_yearly,
                   percent_uplift_monthly |-> percent_uplift(uplift_monthly, r.return_monthly),
                   percent_uplift_yearly |-> percent_uplift(uplift_yearly, r.return_yearly)] :
                     uplift_monthly \in {FSub(r.churney_return_monthly, r.return_monthly)},
                     uplift_yearly \in {FSub(r.churney_return_yearly, r.return_yearly)}}) :
              r \in {[return_monthly |-> FMul(FromInt(ad_spend), rr),
                      return_yearly |-> FMul(FromInt(ad_spend * 12), rr),
                      churney_return_monthly |-> FMul(FromInt(ad_spend), roas),
                      churney_return_yearly |-> FMul(FromInt(ad_spend * 12), roas)]}})

\* the figures of one end of the bracket (page_5.py lines 141-163); rr, sf
\* and cf are hundredths: the baseline ROAS of the number input and the
\* factors 0.03, 0.05, 0.04, ... of the source, each the float nearest to
\* its decimal; the division by a current return of 0 raises
\* ZeroDivisionError
uplift_figures(ad_spend, rr, sf, cf) ==
    IF zero_return(ad_spend, rr) THEN [exc |-> "ZeroDivisionError", figures |-> None]
    ELSE [exc |-> "none",
          figures |-> Some(Value({figures_of(ad_spend, r,
                                             churney_roas_of(r, FromHundredths(sf),
                                                             FromHundredths(cf))) :
                                     r \in {FromHundredths(rr)}}))]

\* f"{x:.0f}": the whole number nearest to a float x >= 0 below 2^63, ties
\* to even, as its limbs
format_0f(x) ==
    Value({IF IsZero(a) THEN <<>>
           ELSE IF a.e >= 0 THEN ShiftLeft(a.m, a.e)
           ELSE RoundOff(a.m, -a.e) : a \in {x}})

\* baseline ROAS values of the number input, in hundredths
RoasValues == {0, 50, 95}

\* the values assign_factor can return, in hundredths
CorrelationFactors == {0, 1, 3, 4, 8, 10, 12, 14}

\* monthly amounts on, next to and away from the two thresholds
SpendAmounts == {1, 99999, 100000, 100001, 150000, 199999, 200000, 200001, 300000}

InitUplift ==
    /\ pc = "parameters"
    /\ avg_monthly_spend \in {Some(l) : l \in Elems(ad_spend_dropdown)}
    /\ regular_roas \in {Some(r) : r \in RoasValues}
    /\ correlation_factor \in {Some(f) : f \in CorrelationFactors}
    /\ spend_arg = None
    /\ ad_spend_range = None
    /\ avg_spending_factor = None
    /\ figures = None
    /\ spend_result = None
    /\ correlation = <<>>
    /\ relevant_values = <<>>
    /\ churney_roas_period = None
    /\ churney_roas = None
    /\ days_list = <<>>
    /\ max_value = 0
    /\ error = "none"
    /\ PipelineIdle
    /\ FactorIdle
    /\ RankIdle
    /\ SessionIdle

\* ad_spend_range = range_mapping(avg_ad_spend)
RangeMapping ==
    /\ pc = "parameters"
    /\ ad_spend_range' = Some(range_mapping(avg_monthly_spend[1]))
    /\ pc' = "ranged"
    /\ UNCHANGED <<avg_monthly_spend, regular_roas, avg_spending_factor, figures,
                   spend_arg, spend_result, days_list, max_value, error,
                   pipelineVars, selVars, factorVars, rankVars, sessionVars>>

\* avg_spending_factor_min and _max = get_avg_spending_factor of each end
SpendingFactors ==
    /\ pc = "ranged"
    /\ LET fmin == get_avg_spending_factor(ad_spend_range[1][1])
           fmax == get_avg_spending_factor(ad_spend_range[1][2])
       IN IF fmin.exc # "none" \/ fmax.exc # "none"
          THEN /\ error' = (IF fmin.exc # "none" THEN fmin.exc ELSE fmax.exc)
               /\ pc' = "failed"
               /\ UNCHANGED avg_spending_factor
          ELSE /\ avg_spending_factor' = Some(<<fmin.factor[1], fmax.factor[1]>>)
               /\ pc' = "spent"
               /\ UNCHANGED error
    /\ UNCHANGED <<avg_monthly_spend, regular_roas, ad_spend_range, figures,
                   spend_arg, spend_result, days_list, max_value,
                   pipelineVars, selVars, factorVars, rankVars, sessionVars>>

\* the minimum figures, then the maximum figures
ComputeUplift ==
    /\ pc = "spent"
    /\ LET min == uplift_figures(ad_spend_range[1][1][1], regular_roas[1],
                                 avg_spending_factor[1][1], correlation_factor[1])
           max == uplift_figures(ad_spend_range[1][2][1], regular_roas[1],
                                 avg_spending_factor[1][2], correlation_factor[1])
       IN IF min.exc # "none" \/ max.exc # "none"
          THEN /\ error' = (IF min.exc # "none" THEN min.exc ELSE max.exc)
               /\ pc' = "failed"
               /\ UNCHANGED figures
          ELSE /\ figures' = Some([min |-> min.figures[1], max |-> max.figures[1]])
               /\ pc' = "estimated"
               /\ UNCHANGED error
    /\ UNCHANGED <<avg_monthly_spend, regular_roas, ad_spend_range, avg_spending_factor,
                   spend_arg, spend_result, days_list, max_value,
                   pipelineVars, selVars, factorVars, rankVars, sessionVars>>

\* get_avg_spending_factor(spend_arg) and page_2's factor of the yearly
\* amount 12 * spend_arg, for an amount on, next to or away from the
\* thresholds; the call is made once the estimate has ended
CallSpendingFactor ==
    /\ pc \in {"estimated", "failed"}
    /\ spend_result = None
    /\ \E a \in SpendAmounts :
          /\ spend_arg' = Some(a)
          /\ spend_result' = Some([page_5 |-> get_avg_spending_factor(Some(a)),
                                   page_2 |-> avg_spending_factor_page_2(a * 12)])
    /\ UNCHANGED <<pc, avg_monthly_spend, regular_roas, ad_spend_range,
                   avg_spending_factor, figures, days_list, max_value, error,
                   pipelineVars, selVars, factorVars, rankVars, sessionVars>>

NextUplift == RangeMapping \/ SpendingFactors \/ ComputeUplift \/ CallSpendingFactor

SpecUplift == InitUplift /\ [][NextUplift]_vars

\* ===================================================================
\* Properties of the spend factor and of the uplift figures (SpecUplift)
\* ===================================================================
\* 0x1.23d70a3d70a3ep-1, which Python prints as 0.5700000000000001
Float_0_5700000000000001 ==
    [sign |-> 1, m |-> <<2622, 18350, 30146, 145>>, e |-> -53]

\* the relative error allowed to a figure computed in floats: 1 / Tolerance
Tolerance == BigMul(BigOf(10000000), BigOf(10000000))

\* the distance of two numbers
AbsDiff(a, b) ==
    Value({IF BigCmp(x, y) >= 0 THEN BigSub(x, y) ELSE BigSub(y, x) : x \in {a}, y \in {b}})

\* The float x and the fraction num / den on one scale: a / u is x, b / u
\* is the fraction, and u is den times the unit in the last place of x.
Scaled(x, num, den) ==
    IF x.e < 0
    THEN [a |-> BigMulSmall(x.m, den), b |-> ShiftLeft(num, -x.e), u |-> BigOf(den)]
    ELSE [a |-> ShiftLeft(BigMulSmall(x.m, den), x.e), b |-> num,
          u |-> ShiftLeft(BigOf(den), x.e)]

\* x is num / den
Same(x, num, den) == Value({BigCmp(p.a, p.b) = 0 : p \in {Scaled(x, num, den)}})

\* x is a float nearest to num / den, what the decimal num / den denotes
Nearest(x, num, den) ==
    Value({BigCmp(BigMulSmall(AbsDiff(p.a, p.b), 2), p.u) <= 0 :
              p \in {Scaled(x, num, den)}})

\* x is num / den with a relative error of at most 1 / Tolerance
Within(x, num, den) ==
    Value({BigCmp(BigMul(AbsDiff(p.a, p.b), Tolerance), p.b) <= 0 :
              p \in {Scaled(x, num, den)}})

\* y is 12 times x
Times12(y, x) ==
    Value({BigCmp(ShiftLeft(y.m, y.e - e), ShiftLeft(BigMulSmall(x.m, 12), x.e - e)) = 0 :
              e \in {IF x.e < y.e THEN x.e ELSE y.e}})

\* u is c - r
Difference(u, c, r) ==
    Value({BigCmp(BigAdd(ShiftLeft(u.m, u.e - e), ShiftLeft(r.m, r.e - e)),
                  ShiftLeft(c.m, c.e - e)) = 0 :
              e \in {IF u.e < r.e THEN (IF u.e < c.e THEN u.e ELSE c.e)
                     ELSE (IF r.e < c.e THEN r.e ELSE c.e)}})

\* the figures of one end e of the bracket are those of the stated
\* formulas for the amount a of that end and its spend factor sf: each the
\* float of its value, the annual ones 12 times the monthly ones, the
\* percentages the whole numbers 10 + sf + cf
EndFigures(e, a, sf) ==
    LET rr == regular_roas[1]
        k == 110 + sf + correlation_factor[1]
    IN /\ Nearest(e.churney_roas, BigOf(rr * k), 10000)
       /\ Nearest(e.return_monthly, BigMulSmall(BigOf(a), rr), 100)
       /\ Nearest(e.churney_return_monthly, BigMulSmall(BigOf(a), rr * k), 10000)
       /\ Times12(e.return_yearly, e.return_monthly)
       /\ Times12(e.churney_return_yearly, e.churney_return_monthly)
       /\ Difference(e.uplift_monthly, e.churney_return_monthly, e.return_monthly)
       /\ Difference(e.uplift_yearly, e.churney_return_yearly, e.return_yearly)
       /\ Times12(e.uplift_yearly, e.uplift_monthly)
       /\ Same(e.percent_uplift_monthly, BigOf(k - 100), 1)
       /\ Same(e.percent_uplift_yearly, BigOf(k - 100), 1)
       /\ (correlation_factor[1] = 4 /\ sf = 0 /\ rr = 50) =>
              Nearest(e.churney_roas, BigOf(57), 100)

\* C12 as stated: for each end of the bracket projected_roas =
\* regular_roas * (1 + 0.10 + spend_factor + correlation_factor), the
\* returns are spend times the ROAS, the annual figures are exactly 12 times
\* the monthly ones, the uplift is projected minus current and the
\* percentage uplift equals 100 * (0.10 + spend_factor + correlation_factor);
\* 0.04, 0 and 0.5 give 0.57.
C12_UpliftFigures ==
    figures # None =>
        /\ EndFigures(figures[1].min, ad_spend_range[1][1][1], avg_spending_factor[1][1])
        /\ EndFigures(figures[1].max, ad_spend_range[1][2][1], avg_spending_factor[1][2])

\* the figures of one end e of the bracket are those of the stated
\* formulas up to the rounding of floats; the uplifts are the differences
\* of the returns as computed, and the percentages shown, formatted
\* without decimals, are 10 + sf + cf
EndFiguresRounded(e, a, sf) ==
    LET rr == regular_roas[1]
        k == 110 + sf + correlation_factor[1]
        spend == BigOf(a)
    IN /\ Within(e.churney_roas, BigOf(rr * k), 10000)
       /\ Within(e.return_monthly, BigMulSmall(spend, rr), 100)
       /\ Within(e.return_yearly, BigMulSmall(spend, 12 * rr), 100)
       /\ Within(e.churney_return_monthly, BigMulSmall(spend, rr * k), 10000)
       /\ Within(e.churney_return_yearly, BigMulSmall(BigMulSmall(spend, rr * k), 12), 10000)
       /\ Difference(e.uplift_monthly, e.churney_return_monthly, e.return_monthly)
       /\ Difference(e.uplift_yearly, e.churney_return_yearly, e.return_yearly)
       /\ Within(e.uplift_monthly, BigMulSmall(spend, rr * (k - 100)), 10000)
       /\ Within(e.uplift_yearly, BigMulSmall(BigMulSmall(spend, rr * (k - 100)), 12), 10000)
       /\ Within(e.percent_uplift_monthly, BigOf(k - 100), 1)
       /\ Within(e.percent_uplift_yearly, BigOf(k - 100), 1)
       /\ format_0f(e.percent_uplift_monthly) = BigOf(k - 100)
       /\ format_0f(e.percent_uplift_yearly) = BigOf(k - 100)

\* C12, amended: the figures of each end of the bracket equal those of the
\* stated formulas with a relative error of at most 10^-14, the rounding of
\* the floats they are computed in; the uplift is exactly projected minus
\* current as computed; the percentage shown at either cadence is exactly
\* 100 * (0.10 + spend_factor + correlation_factor); 0.04, 0 and 0.5 give
\* the float 0.5700000000000001 next above 0.57.
C12_UpliftFiguresRounded ==
    figures # None =>
        /\ EndFiguresRounded(figures[1].min, ad_spend_range[1][1][1],
                             avg_spending_factor[1][1])
        /\ EndFiguresRounded(figures[1].max, ad_spend_range[1][2][1],
                             avg_spending_factor[1][2])
        /\ (correlation_factor = Some(4) /\ regular_roas = Some(50)
                /\ avg_spending_factor[1][1] = 0) =>
              figures[1].min.churney_roas = Float_0_5700000000000001

\* the figures of the example: correlation factor 0.04, spend factor 0,
\* baseline ROAS 0.5; the projected ROAS is not the float of 0.57, and the
\* annual percentage of the upper end is not the whole number 14 but is
\* shown as 14
C12_Witness ==
    /\ pc = "estimated"
    /\ correlation_factor = Some(4)
    /\ regular_roas = Some(50)
    /\ avg_spending_factor = Some(<<0, 0>>)
    /\ figures # None
    /\ figures[1].min.churney_roas = Float_0_5700000000000001
    /\ ~Nearest(figures[1].min.churney_roas, BigOf(57), 100)
    /\ ~Same(figures[1].max.percent_uplift_yearly, BigOf(14), 1)
    /\ format_0f(figures[1].max.percent_uplift_yearly) = BigOf(14)

\* the spend factor of the claim for a monthly amount s
SpendFactorOf(s, f) ==
    /\ s > 200000 => f = 3
    /\ (100000 < s /\ s <= 200000) => f = 5
    /\ s <= 100000 => f = 0

\* C13: the spend factor of a monthly amount s is 0.03 when s > 200000,
\* 0.05 when 100000 < s <= 200000 and 0 when s <= 100000, and the factors
\* of the minimum and of the maximum of the bracket are computed separately.
C13_SpendFactor ==
    /\ spend_result # None =>
          /\ spend_result[1].page_5.exc = "none"
          /\ SpendFactorOf(spend_arg[1], spend_result[1].page_5.factor[1])
          /\ SpendFactorOf(spend_arg[1], spend_result[1].page_2)
    /\ avg_spending_factor # None =>
          /\ SpendFactorOf(ad_spend_range[1][1][1], avg_spending_factor[1][1])
          /\ SpendFactorOf(ad_spend_range[1][2][1], avg_spending_factor[1][2])

\* an amount on the upper threshold got 0.05, and the ends of the bracket
\* $100k - $300k got the different factors 0 and 0.03
C13_Witness ==
    /\ spend_arg = Some(200000)
    /\ spend_result # None
    /\ spend_result[1].page_5 = Returned(5)
    /\ spend_result[1].page_2 = 5
    /\ avg_monthly_spend = Some("$100k - $300k")
    /\ avg_spending_factor = Some(<<0, 3>>)

\* C20: every label of the spend selectbox maps in range_mapping to a
\* numeric pair (min, max) with min <= max, never to (None, None).
C20_LabelsMapped ==
    ad_spend_range # None =>
        /\ ad_spend_range[1][1] # None
        /\ ad_spend_range[1][2] # None
        /\ ad_spend_range[1][1][1] <= ad_spend_range[1][2][1]

\* ===================================================================
\* Re-Ranking Analyzer (User Value Re-Ranking page, pages/page_4.py)
\* ===================================================================
MaxUsers == 3

\* cumulative revenue at the reference and at the lookahead horizon
RevenueVals == {0, 1, 2}

RankRows ==
    {[reference |-> r, lookahead |-> l] : r \in RevenueVals, l \in RevenueVals}

\* how many users share each drawn row, so that bands hold several users
CopyCounts == {1, 4}

\* the table with every row of t present k times in a row
Replicate(t, k) == [i \in 1..(Len(t) * k) |-> t[((i - 1) \div k) + 1]]

Bands == 1..10

\* users with positive revenue by the reference horizon
restrict_positive(t) == SelectSeq(t, LAMBDA r : r.reference > 0)

\* rank of row i, descending, ties broken by first occurrence
rank_first(vals, i) ==
    1 + Cardinality({j \in 1..Len(vals) : vals[j] > vals[i]})
      + Cardinality({j \in 1..(i - 1) : vals[j] = vals[i]})

\* the band of the percentile rank r / n among ten equal-width bands
band_of(r, n) == (10 * r + n - 1) \div n

reference_band(t, i) ==
    band_of(rank_first([j \in 1..Len(t) |-> t[j].reference], i), Len(t))

lookahead_band(t, i) ==
    band_of(rank_first([j \in 1..Len(t) |-> t[j].lookahead], i), Len(t))

\* the counts of users per (reference band, lookahead band)
crosstab(t) ==
    LET rb == [i \in 1..Len(t) |-> reference_band(t, i)]
        lb == [i \in 1..Len(t) |-> lookahead_band(t, i)]
    IN [b \in Bands |-> [c \in Bands |->
          Cardinality({i \in 1..Len(t) : rb[i] = b /\ lb[i] = c})]]

RECURSIVE SumTo(_, _)
SumTo(f, k) == IF k = 0 THEN 0 ELSE f[k] + SumTo(f, k - 1)

\* normalization by the number of all users instead of the row's
row_normalize_all(m) ==
    LET all == SumTo([b \in Bands |-> SumTo(m[b], 10)], 10)
    IN [b \in Bands |->
          IF SumTo(m[b], 10) = 0 THEN None
          ELSE Some([c \in Bands |-> [num |-> 100 * m[b][c], den |-> all]])]

\* each row divided by its total, as percentages num / den; a band without
\* users has the total 0 and no distribution
row_normalize(m) ==
    [b \in Bands |->
        LET total == SumTo(m[b], 10)
        IN IF total = 0 THEN None
           ELSE Some([c \in Bands |-> [num |-> 100 * m[b][c], den |-> total]])]

InitRank ==
    /\ pc = "aggregate"
    /\ \E t \in SeqsUpTo(RankRows, MaxUsers), k \in CopyCounts :
          rank_table = Replicate(t, k)
    /\ transition_matrix = None
    /\ days_list = <<>>
    /\ max_value = 0
    /\ error = "none"
    /\ PipelineIdle
    /\ SelIdle
    /\ FactorIdle
    /\ UpliftIdle
    /\ SessionIdle

RestrictPositive ==
    /\ pc = "aggregate"
    /\ rank_table' = restrict_positive(rank_table)
    /\ pc' = "restricted"
    /\ UNCHANGED <<transition_matrix, days_list, max_value, error, pipelineVars,
                   selVars, factorVars, upliftVars, sessionVars>>

TransitionMatrix ==
    /\ pc = "restricted"
    /\ LET m == crosstab(rank_table)
       IN transition_matrix' = Some(row_normalize(m))
    /\ pc' = "ranked"
    /\ UNCHANGED <<rank_table, days_list, max_value, error, pipelineVars,
                   selVars, factorVars, upliftVars, sessionVars>>

NextRank == RestrictPositive \/ TransitionMatrix

SpecRank == InitRank /\ [][NextRank]_vars

\* ===================================================================
\* Properties of the transition matrix (SpecRank)
\* ===================================================================
\* the percentages of a row, all over the same denominator, add up to 100
RowSums100(row) ==
    SumTo([c \in Bands |-> row[c].num], 10) = 100 * row[1].den

\* the reference bands that hold at least one user
OccupiedBands == {reference_band(rank_table, i) : i \in 1..Len(rank_table)}

\* C15 as stated: each of the ten rows sums to 100, the rows of the
\* reference bands without users included.
C15_AllRowsSumTo100 ==
    pc = "ranked" =>
        \A b \in Bands :
            /\ transition_matrix[1][b] # None
            /\ RowSums100(transition_matrix[1][b][1])

\* C15 (amended): the row of every reference band that holds at least one
\* user sums to 100; a reference band without users has no distribution.
C15_OccupiedRowsSumTo100 ==
    pc = "ranked" =>
        LET occupied == OccupiedBands
        IN \A b \in Bands :
              /\ b \in occupied =>
                    /\ transition_matrix[1][b] # None
                    /\ RowSums100(transition_matrix[1][b][1])
              /\ b \notin occupied => transition_matrix[1][b] = None

\* eight qualifying users: the reference bands 1 and 6 hold no user, and
\* the users of an occupied band all land in one other lookahead band
C15_Witness ==
    /\ pc = "ranked"
    /\ Len(rank_table) = 8
    /\ transition_matrix[1][1] = None
    /\ transition_matrix[1][6] = None
    /\ \E b \in Bands : \E c \in Bands \ {b} :
          /\ transition_matrix[1][b] # None
          /\ transition_matrix[1][b][1][c] = [num |-> 100, den |-> 1]

\* more than ten users: the users of one reference band are split over
\* two lookahead bands
SplitRow ==
    /\ pc = "ranked"
    /\ \E b \in Bands :
          /\ transition_matrix[1][b] # None
          /\ \E c \in Bands : transition_matrix[1][b][1][c] = [num |-> 100, den |-> 2]

\* ===================================================================
\* Session state across Run Analysis and the analysis pages
\* (src/pages/page_1.py, page_2.py, page_3.py, page_5.py, streamlit_app.py)
\* ===================================================================
MaxRuns == 2

\* the options of the ROAS window selectbox
roas_period_options == <<"D30", "D60", "D90", "D180">>

\* a widget left empty returns None
Optional(S) == {Some(v) : v \in S} \cup {None}

Forms ==
    [avg_monthly_spend : Optional(Elems(ad_spend_dropdown)),
     roas_period : Optional(Elems(roas_period_options)),
     regular_roas : Optional(RoasValues)]

AllSupplied(f) ==
    f.avg_monthly_spend # None /\ f.roas_period # None /\ f.regular_roas # None

\* st.session_state[key] = value
Store(ss, key, value) ==
    [k \in DOMAIN ss \cup {key} |-> IF k = key THEN value ELSE ss[k]]

\* What an upload leads to: load_data returns None for a file it cannot
\* read and convert_timestamps raises TypeError; an integer-flag table
\* without the index label 1 raises KeyError in preprocess_data; otherwise
\* the aggregate table comes out, and churney_roas is what
\* find_value_above_threshold returns on its correlations.
Uploads ==
    {[exc |-> "TypeError", churney_roas |-> None],
     [exc |-> "KeyError", churney_roas |-> None],
     [exc |-> "none", churney_roas |-> None],
     [exc |-> "none", churney_roas |-> Some(Num(90))]}

\* page_2: stop without the aggregate table, else five subscript reads in
\* the order of the script, where a missing key raises KeyError; then
\* assign_factor on the maximum of the stored horizon list and on the
\* selection of the stored table (line 97), and the division by the
\* current return in the figures shown (line 191)
page_2_script(ss) ==
    IF "df_aggregate_payments" \notin DOMAIN ss THEN "stopped"
    ELSE IF "days_list" \notin DOMAIN ss THEN "KeyError"
    ELSE IF "avg_yearly_spend" \notin DOMAIN ss THEN "KeyError"
    ELSE IF "roas_period" \notin DOMAIN ss THEN "KeyError"
    ELSE IF "regular_roas" \notin DOMAIN ss THEN "KeyError"
    ELSE LET cf == assign_factor_page_2(Max(Elems(ss["days_list"])),
                                        ss["df_aggregate_payments"].churney_roas)
         IN IF cf.exc # "none" THEN cf.exc
            ELSE IF ss["avg_yearly_spend"] = 0 \/ ss["regular_roas"] = 0
                 THEN "ZeroDivisionError"
            ELSE "rendered"

\* page_3: stop without the aggregate table, else two reads
page_3_script(ss) ==
    IF "df_aggregate_payments" \notin DOMAIN ss THEN "stopped"
    ELSE IF "days_list" \notin DOMAIN ss THEN "KeyError"
    ELSE "rendered"

\* the else branch of page_5 (lines 109-163): the first exception raised
\* on the way to the figures, or the estimate
page_5_estimate(ss) ==
    LET range == range_mapping(ss["avg_monthly_spend"])
        fmin == get_avg_spending_factor(range[1])
        fmax == get_avg_spending_factor(range[2])
        cf == assign_factor(Max(Elems(ss["days_list"])),
                            ss["df_aggregate_payments"].churney_roas)
    IN IF fmin.exc # "none" THEN fmin.exc
       ELSE IF fmax.exc # "none" THEN fmax.exc
       ELSE IF cf.exc # "none" THEN cf.exc
       ELSE IF zero_return(range[1][1], ss["regular_roas"]) THEN "ZeroDivisionError"
       ELSE IF zero_return(range[2][1], ss["regular_roas"]) THEN "ZeroDivisionError"
       ELSE "estimate"

\* page_4 (User Value Re-Ranking), whose script is not among the sources:
\* the Re-Ranking Analyzer of the specification works on the aggregate
\* table and the fixed horizons alone, takes no business parameter and
\* changes nothing it is given; without the table it stops as the other
\* analysis pages do
page_4_script(ss) ==
    IF "df_aggregate_payments" \notin DOMAIN ss THEN "stopped"
    ELSE "rendered"

\* page_5: stop without the aggregate table, a warning and no estimate
\* without the three parameters, else the estimate is computed
page_5_script(ss) ==
    IF "df_aggregate_payments" \notin DOMAIN ss THEN "stopped"
    ELSE IF \/ "avg_monthly_spend" \notin DOMAIN ss
            \/ "roas_period" \notin DOMAIN ss
            \/ "regular_roas" \notin DOMAIN ss
         THEN "withheld"
    ELSE IF "days_list" \notin DOMAIN ss THEN "KeyError"
    ELSE page_5_estimate(ss)

\* the session-state keys the script of page_2 reads
page_2_keys ==
    {"df_aggregate_payments", "days_list", "avg_yearly_spend", "roas_period",
     "regular_roas"}

\* the business parameters of the session
parameter_keys == {"avg_monthly_spend", "roas_period", "regular_roas"}

\* the pages of the navigation
Pages == {"page_1", "page_2", "page_3", "page_4", "page_5"}

script(p, ss) ==
    IF p = "page_2" THEN page_2_script(ss)
    ELSE IF p = "page_3" THEN page_3_script(ss)
    ELSE IF p = "page_4" THEN page_4_script(ss)
    ELSE IF p = "page_5" THEN page_5_script(ss)
    ELSE "rendered"

\* the upload page has been rendered once in a new session
InitSession ==
    /\ pc = "session"
    /\ session_state = [k \in {"data"} |-> None]
    /\ page = "page_1"
    /\ outcome = "rendered"
    /\ runs = 0
    /\ form = None
    /\ days_list = <<>>
    /\ max_value = 0
    /\ error = "none"
    /\ PipelineIdle
    /\ SelIdle
    /\ FactorIdle
    /\ UpliftIdle
    /\ RankIdle

\* no script is under way or requested
Ended == outcome \notin {"pending", "running"}

\* The Run Analysis button on the upload page with a file uploaded.  When
\* loading or preprocessing raises, the script of page_1 ends with the
\* exception and nothing is written.  Otherwise the step runs up to the
\* first write to the session, of the aggregate table at line 485; the
\* statements before it change nothing the session holds.
RunAnalysis ==
    /\ page = "page_1"
    /\ Ended
    /\ runs < MaxRuns
    /\ \E f \in Forms, u \in Uploads :
          IF u.exc # "none"
          THEN /\ outcome' = u.exc
               /\ UNCHANGED <<session_state, form, pc>>
          ELSE /\ outcome' = "running"
               /\ form' = Some([widgets |-> f, complete |-> FALSE])
               /\ session_state' =
                     Store(session_state, "df_aggregate_payments",
                           [run |-> runs + 1, churney_roas |-> u.churney_roas])
               /\ pc' = "L486"
    /\ runs' = runs + 1
    /\ UNCHANGED <<page, days_list, max_value, error, pipelineVars, selVars,
                   factorVars, upliftVars, rankVars>>

\* st.session_state["days_list"] = days_list, and the test of line 488
StoreDaysList ==
    /\ pc = "L486"
    /\ session_state' = Store(session_state, "days_list", DaysList)
    /\ IF AllSupplied(form[1].widgets)
       THEN pc' = "L489" /\ UNCHANGED form
       ELSE pc' = "L493" /\ form' = Some([form[1] EXCEPT !.complete = TRUE])
    /\ UNCHANGED <<page, outcome, runs, days_list, max_value, error, pipelineVars,
                   selVars, factorVars, upliftVars, rankVars>>

\* st.session_state["avg_monthly_spend"] = avg_monthly_spend
StoreSpend ==
    /\ pc = "L489"
    /\ session_state' = Store(session_state, "avg_monthly_spend",
                              form[1].widgets.avg_monthly_spend[1])
    /\ pc' = "L490"
    /\ UNCHANGED <<page, outcome, runs, form, days_list, max_value, error,
                   pipelineVars, selVars, factorVars, upliftVars, rankVars>>

\* st.session_state["roas_period"] = roas_period
StoreRoasPeriod ==
    /\ pc = "L490"
    /\ session_state' = Store(session_state, "roas_period",
                              form[1].widgets.roas_period[1])
    /\ pc' = "L491"
    /\ UNCHANGED <<page, outcome, runs, form, days_list, max_value, error,
                   pipelineVars, selVars, factorVars, upliftVars, rankVars>>

\* st.session_state["regular_roas"] = regular_roas
StoreRegularRoas ==
    /\ pc = "L491"
    /\ session_state' = Store(session_state, "regular_roas",
                              form[1].widgets.regular_roas[1])
    /\ form' = Some([form[1] EXCEPT !.complete = TRUE])
    /\ pc' = "L493"
    /\ UNCHANGED <<page, outcome, runs, days_list, max_value, error, pipelineVars,
                   selVars, factorVars, upliftVars, rankVars>>

\* st.success, time.sleep(2) and st.switch_page("pages/page_2.py"): the
\* script of page_1 ends and a run of page_2 is requested.  While the
\* message is shown and the script waits, the state is the one at L493,
\* where Visit can stop the script.
SwitchPage ==
    /\ pc = "L493"
    /\ page' = "page_2"
    /\ outcome' = "pending"
    /\ pc' = "session"
    /\ UNCHANGED <<session_state, runs, form, days_list, max_value, error,
                   pipelineVars, selVars, factorVars, upliftVars, rankVars>>

\* a page chosen in the navigation or by a button of the page shown
\* (page_2.py:228, page_3.py:77 and :79, page_5.py:390), or a rerun of the
\* page shown: the script under way, if any, is stopped where it is and a
\* run of the page is requested
Visit ==
    /\ \E p \in Pages :
          /\ p # page \/ outcome # "pending"
          /\ page' = p
    /\ outcome' = "pending"
    /\ pc' = "session"
    /\ UNCHANGED <<session_state, runs, form, days_list, max_value, error,
                   pipelineVars, selVars, factorVars, upliftVars, rankVars>>

\* the requested run of the script of the page
RunScript ==
    /\ outcome = "pending"
    /\ outcome' = script(page, session_state)
    /\ UNCHANGED <<session_state, page, runs, form, pc, days_list, max_value, error,
                   pipelineVars, selVars, factorVars, upliftVars, rankVars>>

NextSession ==
    \/ RunAnalysis
    \/ StoreDaysList
    \/ StoreSpend
    \/ StoreRoasPeriod
    \/ StoreRegularRoas
    \/ SwitchPage
    \/ Visit
    \/ RunScript

SpecSession == InitSession /\ [][NextSession]_vars

\* ===================================================================
\* Properties of the session (SpecSession)
\* ===================================================================
\* the pages of the Analysis section
AnalysisPages == {"page_2", "page_3", "page_4", "page_5"}

\* the run that stored the table of the session made all its writes, and
\* no script is under way
RunComplete == form # None /\ form[1].complete /\ Ended

\* C14: after a run without all three business parameters the aggregate
\* table and the horizon list are in the session, no analysis page fails,
\* and the estimate page shows no estimate when the parameters are not in
\* the session.
C14_ParametersOptional ==
    (RunComplete /\ ~AllSupplied(form[1].widgets)) =>
        /\ {"df_aggregate_payments", "days_list"} \subseteq DOMAIN session_state
        /\ page \in AnalysisPages => outcome \in {"rendered", "withheld", "estimate"}
        /\ (page = "page_5" /\ parameter_keys \cap DOMAIN session_state = {}) =>
              outcome = "withheld"

\* C21: when Run Analysis ran with all three parameters and page_2 is
\* shown, every key page_2 reads is in the session, the maximum of the
\* stored horizon list is a horizon of page_2's factor table, and the
\* script of page_2 ends without an exception.
C21_PageFlow ==
    (RunComplete /\ AllSupplied(form[1].widgets) /\ page = "page_2") =>
        /\ page_2_keys \subseteq DOMAIN session_state
        /\ Max(Elems(session_state["days_list"])) \in SupportedPage2
        /\ outcome = "rendered"

\* C22: after any sequence of runs, stopped ones included, the parameters
\* of the session are those of the run that stored the current aggregate
\* table, and there are none when that run supplied fewer than three; the
\* estimate page shows an estimate only with the parameters of that run.
C22_ParametersOfLatestRun ==
    (form # None /\ Ended) =>
        /\ session_state["df_aggregate_payments"].run <= runs
        /\ AllSupplied(form[1].widgets) =>
              /\ parameter_keys \subseteq DOMAIN session_state
              /\ session_state["avg_monthly_spend"] = form[1].widgets.avg_monthly_spend[1]
              /\ session_state["roas_period"] = form[1].widgets.roas_period[1]
              /\ session_state["regular_roas"] = form[1].widgets.regular_roas[1]
        /\ ~AllSupplied(form[1].widgets) => parameter_keys \cap DOMAIN session_state = {}
        /\ (page = "page_5" /\ outcome = "estimate") => AllSupplied(form[1].widgets)

====
